---- MODULE Spec2Model ----
(***************************************************************************)
(* Model of src/dashboard_app.py: a Streamlit page whose script is re-run  *)
(* from the top on every widget interaction.  The nine input widgets hold  *)
(* the applicant's values; pressing the button builds input_data, calls    *)
(* get_prediction (one requests.post) and renders the returned value.      *)
(***************************************************************************)
EXTENDS Integers, Sequences, FiniteSets, TLC

VARIABLES
  age, credit_amount, duration,          \* number_input widgets (col1)
  sex, job_index, housing,               \* selectbox widgets (col2)
  saving_accounts, checking_account, purpose,   \* selectbox widgets (col3)
  pc,                \* position of the script: "Idle", "Submitting", "Done"
  sent,              \* the JSON bodies POSTed to API_URL so far, in order
  clicks,            \* number of times the button has been pressed
  edits,             \* number of widget edits so far
  clean,             \* no widget was edited since the last button press
  resubmit,          \* the current cycle was triggered with the widgets untouched since the previous trigger
  response,          \* what requests.post produced in the current cycle
  prediction_result, \* the value get_prediction returned in the current cycle
  page,              \* the elements the button block put on the page in this run
  uncaught           \* the run ended with an exception nobody caught

widgets == <<age, credit_amount, duration, sex, job_index, housing,
             saving_accounts, checking_account, purpose>>
cycle == <<pc, sent, clicks, clean, resubmit, response, prediction_result, page, uncaught>>
vars == <<widgets, edits, cycle>>

-----------------------------------------------------------------------------
(* Bounds of the exploration *)
MaxClicks == 2
MaxEdits == 1

-----------------------------------------------------------------------------
(* 1. CONFIGURATION *)
API_URL == "http://127.0.0.1:8000/predict_segment/"

JOB_OPTIONS == [x \in 0..3 |->
                  CASE x = 0 -> "Unskilled-Non-Resident"
                    [] x = 1 -> "Unskilled-Resident"
                    [] x = 2 -> "Skilled"
                    [] x = 3 -> "Highly Skilled"]

(* Widget declarations: ranges, option lists and defaults *)
AgeMin == 18
AgeMax == 100
AgeDefault == 35
CreditMin == 500
CreditDefault == 6500
DurationMin == 6
DurationMax == 72
DurationDefault == 24

SexOptions == <<"male", "female">>
JobKeys == <<0, 1, 2, 3>>
HousingOptions == <<"rent", "own", "free">>
SavingOptions == <<"little", "moderate", "quite rich", "rich">>
CheckingOptions == <<"little", "moderate", "rich", "no checking">>
PurposeOptions == <<"car", "furniture/equipment", "radio/TV", "domestic appliances",
                    "repairs", "education", "business", "vacation/others">>

Range(s) == {s[i] : i \in DOMAIN s}

(* The values an edit may put into a number_input: the widget refuses      *)
(* anything outside [min_value, max_value].                                *)
AgeValues == {v \in {AgeMin, AgeMin + 1, AgeDefault, AgeMax} : v >= AgeMin /\ v <= AgeMax}
CreditValues == {v \in {CreditMin, CreditDefault, 1000000} : v >= CreditMin}
DurationValues == {v \in {DurationMin, DurationDefault, DurationMax} :
                     v >= DurationMin /\ v <= DurationMax}

-----------------------------------------------------------------------------
(* Python / JSON values.  A value is a record of one shape:                *)
(*   kind "null"    None                                                   *)
(*   kind "array"   a list of len items                                    *)
(*   kind "object"  a dict holding the keys in `keys`                      *)
(*   kind "invalid" a response body that is not JSON at all                *)
Value(kind, len, keys, id, name, detail) ==
  [kind |-> kind, len |-> len, keys |-> keys,
   risk_segment_id |-> id, risk_segment_name |-> name, detail |-> detail]

None == Value("null", 0, {}, 0, "", "")
NotJson == Value("invalid", 0, {}, 0, "", "")
List(n) == Value("array", n, {}, 0, "", "")

SegmentIds == {0, 1, 2, 7}
SegmentNames == {"Prime Borrowers"}
Details == {"Age must be positive"}

(* dicts over the keys the program reads: a key that is absent carries a   *)
(* fixed filler so that every dict has one representation                  *)
ResultDicts ==
  {Value("object", 0, {}, 0, "", "")}
    \cup {Value("object", 0, {"risk_segment_id"}, id, "", "") : id \in SegmentIds}
    \cup {Value("object", 0, {"risk_segment_name"}, 0, nm, "") : nm \in SegmentNames}
    \cup {Value("object", 0, {"risk_segment_id", "risk_segment_name"}, id, nm, "") :
            id \in SegmentIds, nm \in SegmentNames}
DetailDicts ==
  {Value("object", 0, {"detail"}, 0, "", dt) : dt \in Details}
    \cup {Value("object", 0, {"detail", "risk_segment_id"}, 0, "", dt) : dt \in Details}

Bodies == {NotJson, None, List(0), List(1)} \cup ResultDicts \cup DetailDicts

Statuses == {200, 422, 500}

(* dict.get(key, default) *)
Get(d, key, default) == IF key \in d.keys THEN d[key] ELSE default

(* bool(v) as `if v:` takes it *)
Truthy(v) ==
  CASE v.kind = "null" -> FALSE
    [] v.kind = "array" -> v.len > 0
    [] v.kind = "object" -> v.keys # {}
    [] OTHER -> TRUE

(* What requests.post(API_URL, json=data) can produce *)
Outcome(kind, exc, status_code, body) ==
  [kind |-> kind, exc |-> exc, status_code |-> status_code, body |-> body]
NoOutcome == Outcome("none", "", 0, None)
ConnectionError == Outcome("connection_error", "Connection refused", 0, None)
OtherErrors == {Outcome("exception", e, 0, None) : e \in {"Exceeded 30 redirects."}}
Responses == {Outcome("response", "", s, b) : s \in Statuses, b \in Bodies}

(* Page elements *)
Element(el, text, color, label) == [el |-> el, text |-> text, color |-> color, label |-> label]
StError(text) == Element("error", text, "", "")
StWarning(text) == Element("warning", text, "", "")
StSuccess(text) == Element("success", text, "", "")
RiskCard(color, label, segment_name) ==
  Element("card", <<"Predicted Segment: ", segment_name>>, color, label)

-----------------------------------------------------------------------------
(* 2. CORE PREDICTION LOGIC *)

(* str(e) of what response.json() and .get raise inside the try block *)
JSONDecodeError == "Expecting value: line 1 column 1 (char 0)"
AttributeError(v) ==
  IF v.kind = "null" THEN "'NoneType' object has no attribute 'get'"
  ELSE "'list' object has no attribute 'get'"

Returned(ret, msgs) == [ret |-> ret, msgs |-> msgs]

(* except Exception as e *)
Unexpected(e) == Returned(None, <<StError(<<"An unexpected error occurred: ", e>>)>>)

(* Faulty variant: the ConnectionError clause is missing, so the failure   *)
(* falls into `except Exception`.                                           *)
CannotConnectGeneric == Unexpected("Connection refused")

(* except requests.exceptions.ConnectionError *)
CannotConnect ==
  Returned(None,
    <<StError(<<"Connection Error: Could not connect to the Prediction API.">>),
      StWarning(<<"Please ensure your Project 2 FastAPI server is running at ", API_URL, ".">>)>>)

(* the else branch of `if response.status_code == 200` *)
ApiError(r) ==
  IF r.body.kind = "invalid" THEN Unexpected(JSONDecodeError)
  ELSE IF r.body.kind # "object" THEN Unexpected(AttributeError(r.body))
  ELSE LET error_detail == Get(r.body, "detail", "Unknown API Error")
       IN Returned(None,
            <<StError(<<"API Error (", ToString(r.status_code), "): ", error_detail>>),
              StWarning(<<"Ensure your Project 2 FastAPI server is running in a separate terminal.">>)>>)

(* get_prediction(data) when requests.post(API_URL, json=data) produces out: *)
(* the value returned and the messages put on the page                      *)
get_prediction(data, out) ==
  CASE out.kind = "connection_error" -> CannotConnect
    [] out.kind = "exception" -> Unexpected(out.exc)
    [] OTHER ->
         IF out.status_code = 200
         THEN IF out.body.kind = "invalid" THEN Unexpected(JSONDecodeError)
              ELSE Returned(out.body, <<>>)
         ELSE ApiError(out)

-----------------------------------------------------------------------------
(* 4. Gather data for API *)
PyInt(x) == x   \* int() of a number_input value declared with int bounds, or of a JOB_OPTIONS key

(* Faulty variant: Duration is read from the wrong widget. *)
InputDataSwapped ==
  [Age |-> PyInt(age),
   Duration |-> PyInt(credit_amount),
   Credit_amount |-> PyInt(credit_amount),
   Job |-> PyInt(job_index),
   Sex |-> sex,
   Housing |-> housing,
   Saving_accounts |-> saving_accounts,
   Checking_account |-> checking_account,
   Purpose |-> purpose]

InputData ==
  [Age |-> PyInt(age),
   Duration |-> PyInt(duration),
   Credit_amount |-> PyInt(credit_amount),
   Job |-> PyInt(job_index),
   Sex |-> sex,
   Housing |-> housing,
   Saving_accounts |-> saving_accounts,
   Checking_account |-> checking_account,
   Purpose |-> purpose]

(* 6. Display Result: the elements rendered for prediction_result, and      *)
(* whether the block raised                                                 *)
Shown(els, raised) == [els |-> els, raised |-> raised]

SegmentColor(segment_id) ==
  CASE segment_id = 0 -> "var(--low-risk)"
    [] segment_id = 1 -> "var(--medium-risk)"
    [] segment_id = 2 -> "var(--high-risk)"
    [] OTHER -> "var(--border-color)"

SegmentLabel(segment_id) ==
  CASE segment_id = 0 -> "Low Risk Segment"
    [] segment_id = 1 -> "Medium Risk Segment"
    [] segment_id = 2 -> "High Risk Segment"
    [] OTHER -> "Prediction Error"

SuccessBanner == StSuccess(<<"Prediction complete! Result received from FastAPI API.">>)

(* Faulty variant: the `if prediction_result:` guard is missing and an      *)
(* absent result is rendered from the defaults.                             *)
DisplayResultUnguarded(result) ==
  LET r == IF result.kind = "object" THEN result ELSE Value("object", 0, {}, 0, "", "")
      segment_id == Get(r, "risk_segment_id", 99)
      segment_name == Get(r, "risk_segment_name", "Unknown Segment")
  IN Shown(<<RiskCard(SegmentColor(segment_id), SegmentLabel(segment_id), segment_name),
             SuccessBanner>>, FALSE)

(* Faulty variant: st.success sits inside the three known-segment branches. *)
DisplayResultBannerKnownOnly(result) ==
  IF ~Truthy(result) THEN Shown(<<>>, FALSE)
  ELSE IF result.kind # "object" THEN Shown(<<>>, TRUE)
  ELSE LET segment_id == Get(result, "risk_segment_id", 99)
           segment_name == Get(result, "risk_segment_name", "Unknown Segment")
           card == RiskCard(SegmentColor(segment_id), SegmentLabel(segment_id), segment_name)
       IN IF segment_id \in {0, 1, 2} THEN Shown(<<card, SuccessBanner>>, FALSE)
          ELSE Shown(<<card>>, FALSE)

DisplayResult(result) ==
  IF ~Truthy(result) THEN Shown(<<>>, FALSE)
  ELSE IF result.kind # "object" THEN Shown(<<>>, TRUE)   \* .get on a list: AttributeError
  ELSE LET segment_id == Get(result, "risk_segment_id", 99)
           segment_name == Get(result, "risk_segment_name", "Unknown Segment")
       IN Shown(<<RiskCard(SegmentColor(segment_id), SegmentLabel(segment_id), segment_name),
                  SuccessBanner>>, FALSE)

-----------------------------------------------------------------------------
(* State after the first run of the script: every widget at its default,    *)
(* the button not pressed.                                                  *)
NoCycle ==
  /\ pc = "Idle"
  /\ sent = <<>>
  /\ clicks = 0
  /\ edits = 0
  /\ clean = FALSE
  /\ resubmit = FALSE
  /\ response = NoOutcome
  /\ prediction_result = None
  /\ page = <<>>
  /\ uncaught = FALSE

Init ==
  /\ age = AgeDefault
  /\ credit_amount = CreditDefault
  /\ duration = DurationDefault
  /\ sex = SexOptions[1]
  /\ job_index = JobKeys[1]
  /\ housing = HousingOptions[2]
  /\ saving_accounts = SavingOptions[1]
  /\ checking_account = CheckingOptions[2]
  /\ purpose = PurposeOptions[1]
  /\ NoCycle

(* A widget edit re-runs the script with st.button returning False: the     *)
(* button block is skipped and nothing of the previous run stays on the page *)
Rerun ==
  /\ pc \in {"Idle", "Done"}
  /\ edits < MaxEdits
  /\ edits' = edits + 1
  /\ pc' = "Idle"
  /\ clean' = FALSE
  /\ resubmit' = FALSE
  /\ response' = NoOutcome
  /\ prediction_result' = None
  /\ page' = <<>>
  /\ uncaught' = FALSE
  /\ UNCHANGED <<sent, clicks>>

EditAge ==
  /\ \E v \in AgeValues \ {age} : age' = v
  /\ Rerun
  /\ UNCHANGED <<credit_amount, duration, sex, job_index, housing,
                 saving_accounts, checking_account, purpose>>

EditCreditAmount ==
  /\ \E v \in CreditValues \ {credit_amount} : credit_amount' = v
  /\ Rerun
  /\ UNCHANGED <<age, duration, sex, job_index, housing,
                 saving_accounts, checking_account, purpose>>

EditDuration ==
  /\ \E v \in DurationValues \ {duration} : duration' = v
  /\ Rerun
  /\ UNCHANGED <<age, credit_amount, sex, job_index, housing,
                 saving_accounts, checking_account, purpose>>

EditSex ==
  /\ \E v \in Range(SexOptions) \ {sex} : sex' = v
  /\ Rerun
  /\ UNCHANGED <<age, credit_amount, duration, job_index, housing,
                 saving_accounts, checking_account, purpose>>

EditJob ==
  /\ \E v \in Range(JobKeys) \ {job_index} : job_index' = v
  /\ Rerun
  /\ UNCHANGED <<age, credit_amount, duration, sex, housing,
                 saving_accounts, checking_account, purpose>>

EditHousing ==
  /\ \E v \in Range(HousingOptions) \ {housing} : housing' = v
  /\ Rerun
  /\ UNCHANGED <<age, credit_amount, duration, sex, job_index,
                 saving_accounts, checking_account, purpose>>

EditSavingAccounts ==
  /\ \E v \in Range(SavingOptions) \ {saving_accounts} : saving_accounts' = v
  /\ Rerun
  /\ UNCHANGED <<age, credit_amount, duration, sex, job_index, housing,
                 checking_account, purpose>>

EditCheckingAccount ==
  /\ \E v \in Range(CheckingOptions) \ {checking_account} : checking_account' = v
  /\ Rerun
  /\ UNCHANGED <<age, credit_amount, duration, sex, job_index, housing,
                 saving_accounts, purpose>>

EditPurpose ==
  /\ \E v \in Range(PurposeOptions) \ {purpose} : purpose' = v
  /\ Rerun
  /\ UNCHANGED <<age, credit_amount, duration, sex, job_index, housing,
                 saving_accounts, checking_account>>

(* Faulty variant: get_prediction is memoised on its argument, so a press   *)
(* with unchanged widgets shows the previous outcome and sends nothing.      *)
ClickCached ==
  /\ pc \in {"Idle", "Done"}
  /\ clicks < MaxClicks
  /\ clicks' = clicks + 1
  /\ resubmit' = (clean /\ clicks > 0)
  /\ clean' = TRUE
  /\ IF pc = "Done" /\ clean /\ clicks > 0
     THEN UNCHANGED <<sent, pc, response, prediction_result, page, uncaught>>
     ELSE /\ sent' = Append(sent, InputData)
          /\ pc' = "Submitting"
          /\ response' = NoOutcome
          /\ prediction_result' = None
          /\ page' = <<>>
          /\ uncaught' = FALSE
  /\ UNCHANGED <<widgets, edits>>

(* The button is pressed: the script re-runs, builds input_data, enters the *)
(* spinner and get_prediction calls requests.post, which blocks.            *)
Click ==
  /\ pc \in {"Idle", "Done"}
  /\ clicks < MaxClicks
  /\ clicks' = clicks + 1
  /\ sent' = Append(sent, InputData)
  /\ pc' = "Submitting"
  /\ resubmit' = (clean /\ clicks > 0)
  /\ clean' = TRUE
  /\ response' = NoOutcome
  /\ prediction_result' = None
  /\ page' = <<>>
  /\ uncaught' = FALSE
  /\ UNCHANGED <<widgets, edits>>

(* requests.post comes back with out; get_prediction returns and the rest   *)
(* of the button block runs to the end of the script.                       *)
Finish(out) ==
  LET r == get_prediction(sent[Len(sent)], out)
      d == DisplayResult(r.ret)
  IN /\ response' = out
     /\ prediction_result' = r.ret
     /\ page' = r.msgs \o d.els
     /\ uncaught' = d.raised
     /\ pc' = "Done"
     /\ UNCHANGED <<widgets, edits, sent, clicks, clean, resubmit>>

(* Faulty variant: a failed connection is retried once. *)
ConnectionFailsRetry ==
  /\ pc = "Submitting"
  /\ IF Len(sent) = clicks
     THEN /\ sent' = Append(sent, sent[Len(sent)])
          /\ UNCHANGED <<widgets, edits, pc, clicks, clean, resubmit, response,
                         prediction_result, page, uncaught>>
     ELSE Finish(ConnectionError)

ConnectionFails ==
  /\ pc = "Submitting"
  /\ Finish(ConnectionError)

RequestRaises ==
  /\ pc = "Submitting"
  /\ \E out \in OtherErrors : Finish(out)

ResponseArrives ==
  /\ pc = "Submitting"
  /\ \E out \in Responses : Finish(out)

Next ==
  \/ EditAge \/ EditCreditAmount \/ EditDuration
  \/ EditSex \/ EditJob \/ EditHousing
  \/ EditSavingAccounts \/ EditCheckingAccount \/ EditPurpose
  \/ Click
  \/ ConnectionFails \/ RequestRaises \/ ResponseArrives

Spec == Init /\ [][Next]_vars

(* The form in any state the widgets allow, and the button pressed once on  *)
(* it: every combination of widget values reaches payload construction.     *)
InitForm ==
  /\ age \in AgeValues
  /\ credit_amount \in CreditValues
  /\ duration \in DurationValues
  /\ sex \in Range(SexOptions)
  /\ job_index \in Range(JobKeys)
  /\ housing \in Range(HousingOptions)
  /\ saving_accounts \in Range(SavingOptions)
  /\ checking_account \in Range(CheckingOptions)
  /\ purpose \in Range(PurposeOptions)
  /\ NoCycle

NextForm == Click

SpecForm == InitForm /\ [][NextForm]_vars

-----------------------------------------------------------------------------
(* What is on the page *)
Has(el) == \E i \in DOMAIN page : page[i].el = el
HasCard == Has("card")
HasError == Has("error")
HasSuccess == Has("success")
Card == page[CHOOSE i \in DOMAIN page : page[i].el = "card"]
Mentions(text, s) == \E j \in DOMAIN text : text[j] = s
ErrorHeads(msgs) == {msgs[i].text[1] : i \in {j \in DOMAIN msgs : msgs[j].el = "error"}}

Got200 == response.kind = "response" /\ response.status_code = 200
GotNon200 == response.kind = "response" /\ response.status_code # 200
(* get_prediction returned the parsed body of a 200 response *)
CallSucceeded == Got200 /\ response.body.kind # "invalid"

PayloadKeys == {"Age", "Duration", "Credit_amount", "Job", "Sex", "Housing",
                "Saving_accounts", "Checking_account", "Purpose"}

-----------------------------------------------------------------------------
(* C1: after any sequence of edits and triggers, whatever each trigger's   *)
(* outcome, the number of POST requests sent equals the number of triggers: *)
(* one request per trigger, no retry, none for an edit.                     *)
C1_OnePostPerTrigger == Len(sent) = clicks

C1_Witness ==
  /\ pc = "Done" /\ clicks = 2 /\ edits = 1 /\ Len(sent) = 2
  /\ response.kind = "connection_error"

(* C2: no exception escapes the button handler, whatever the service sent, *)
(* and a connection failure, any other exception of the call, a non-200     *)
(* response and a malformed 200 body each put an error message on the page. *)
C2_NoFailureEscapes ==
  pc = "Done" =>
    /\ ~uncaught
    /\ (\/ response.kind \in {"connection_error", "exception"}
        \/ GotNon200
        \/ (Got200 /\ response.body.kind = "invalid")) => HasError

(* C3: a triggered cycle ends Rendered (a card, no error) when the call     *)
(* succeeded with HTTP 200 and ErrorShown (an error, no card) when it       *)
(* failed; it never ends with neither.                                      *)
C3_RenderedOrErrorShown ==
  pc = "Done" =>
    /\ CallSucceeded => (HasCard /\ ~HasError)
    /\ ~CallSucceeded => (HasError /\ ~HasCard)

(* C4: for every result a successful call returned, a card is rendered      *)
(* whose label and color follow the segment identifier (0 low/green,        *)
(* 1 medium/yellow, 2 high/red, anything else or missing "Prediction        *)
(* Error"/neutral) and which shows the result's segment name.               *)
C4_CardFollowsSegmentId ==
  (pc = "Done" /\ CallSucceeded /\ response.body.kind = "object") =>
    /\ HasCard
    /\ LET b == response.body
           known == "risk_segment_id" \in b.keys /\ b.risk_segment_id \in {0, 1, 2}
           id == b.risk_segment_id
       IN /\ Card.label = IF ~known THEN "Prediction Error"
                           ELSE IF id = 0 THEN "Low Risk Segment"
                           ELSE IF id = 1 THEN "Medium Risk Segment"
                           ELSE "High Risk Segment"
          /\ Card.color = IF ~known THEN "var(--border-color)"
                           ELSE IF id = 0 THEN "var(--low-risk)"
                           ELSE IF id = 1 THEN "var(--medium-risk)"
                           ELSE "var(--high-risk)"
          /\ "risk_segment_name" \in b.keys => Mentions(Card.text, b.risk_segment_name)

(* C5: for every non-200 response the client returns no result, no card is  *)
(* rendered, and the error message contains the body's detail when it has   *)
(* one and "Unknown API Error" when it has none.                            *)
C5_Non200DetailOrUnknown ==
  (pc = "Done" /\ GotNon200) =>
    /\ prediction_result = None
    /\ ~HasCard
    /\ LET b == response.body
           expected == IF b.kind = "object" /\ "detail" \in b.keys
                       THEN b.detail ELSE "Unknown API Error"
       IN \E i \in DOMAIN page : page[i].el = "error" /\ Mentions(page[i].text, expected)

C7_PayloadFromWidgets ==
  (Len(sent) > 0 /\ clean) =>
    LET p == sent[Len(sent)]
    IN /\ DOMAIN p = PayloadKeys
       /\ p.Age \in Int /\ p.Age = age
       /\ p.Duration \in Int /\ p.Duration = duration
       /\ p.Credit_amount \in Int /\ p.Credit_amount = credit_amount
       /\ p.Job \in DOMAIN JOB_OPTIONS /\ p.Job = job_index
       /\ p.Sex \in Range(SexOptions) /\ p.Sex = sex
       /\ p.Housing \in Range(HousingOptions) /\ p.Housing = housing
       /\ p.Saving_accounts \in Range(SavingOptions) /\ p.Saving_accounts = saving_accounts
       /\ p.Checking_account \in Range(CheckingOptions) /\ p.Checking_account = checking_account
       /\ p.Purpose \in Range(PurposeOptions) /\ p.Purpose = purpose

C7_Witness ==
  /\ pc = "Submitting" /\ age = AgeMax /\ sent[1].Age = AgeMax
  /\ job_index = 3 /\ sent[1].Job = 3
  /\ credit_amount = CreditMin /\ duration = DurationMax
  /\ purpose = "vacation/others" /\ checking_account = "no checking"

(* C8: in a cycle in which the client reported a failure there is no card   *)
(* and nothing on the page but the client's messages; an error and a card   *)
(* never appear together.                                                   *)
C8_FailureShowsOnlyClientMessages ==
  HasError =>
    /\ pc = "Done"
    /\ prediction_result = None
    /\ ~HasCard /\ ~HasSuccess /\ ~uncaught
    /\ page = get_prediction(sent[Len(sent)], response).msgs
    /\ \A i \in DOMAIN page : page[i].el \in {"error", "warning"}

C8_Witness ==
  /\ pc = "Done" /\ GotNon200 /\ HasError /\ ~HasCard
  /\ "detail" \in response.body.keys

(* C9: a trigger with no field changed since the previous trigger sends a   *)
(* second request with the same payload; nothing of the previous cycle is   *)
(* reused: while waiting nothing is shown, and what is shown afterwards is  *)
(* decided by the response of this cycle.                                   *)
C9_ResubmitIsIndependent ==
  resubmit =>
    /\ clicks >= 2 /\ Len(sent) = clicks
    /\ sent[clicks] = sent[clicks - 1]
    /\ pc = "Submitting" => (page = <<>> /\ response = NoOutcome)
    /\ pc = "Done" =>
         /\ HasCard <=> (CallSucceeded /\ response.body.kind = "object"
                                       /\ response.body.keys # {})
         /\ HasError <=> ~CallSucceeded

C9_Witness ==
  /\ resubmit /\ pc = "Done" /\ HasCard /\ Card.label = "High Risk Segment"
  /\ sent[2] = sent[1]

(* C10: the "Prediction complete!" banner is on the page exactly when a     *)
(* card is, also when the card says "Prediction Error", and never together  *)
(* with an error of the client.                                             *)
C10_BannerIffCard ==
  /\ HasSuccess <=> HasCard
  /\ HasError => ~HasSuccess
  /\ HasSuccess => page[Len(page)] = SuccessBanner

C10_Witness ==
  /\ pc = "Done" /\ HasCard /\ HasSuccess
  /\ Card.label = "Prediction Error"
  /\ "risk_segment_id" \notin response.body.keys

====
